---- MODULE Spec2Model ----
(***************************************************************************)
(* Model of anemll/models/qwen_model_no_cache.py: the Qwen causal-LM       *)
(* wrapper (QwenForCausalLM), its decoder stack (QwenModel), the rotary    *)
(* table lookup, repeat_kv and the checkpoint loader.                      *)
(*                                                                         *)
(* Tensors are modelled by their shape and by the identity of their rows:  *)
(* a head weight is the sequence of its output rows, a hidden state is the *)
(* sequence of its rows on the sequence axis together with the sequence of *)
(* modules that produced it, and a 1x1 convolution pairs every hidden row  *)
(* with every weight row (one logit per pair).  Checkpoint keys are the    *)
(* sequences of their name fragments ("model", "layers", "0", ...).        *)
(***************************************************************************)
EXTENDS Integers, Sequences, FiniteSets, TLC

VARIABLES
    flags,          \* the module-level ENABLE_* switches (lines 31-36)
    config,         \* QwenConfig fields used by the code
    enable_coreml,  \* QwenForCausalLM.enable_coreml
    lm_heads,       \* head attribute name -> weight rows (Conv2d weights)
    state_dict,     \* QwenModel parameter/buffer name -> stored tensor
    cos_cached,     \* QwenRotaryEmbedding.cos_cached, one entry per position
    sin_cached,     \* QwenRotaryEmbedding.sin_cached
    ckpt,           \* the checkpoint given to the last load call
    load_ret,       \* outcome of the last load call
    call,           \* the last forward / prefill_kv_cache call and its outcome
    kv,             \* the last repeat_kv application
    conv_step       \* the last checkpoint entry the key translation processed

vars == <<flags, config, enable_coreml, lm_heads, state_dict, cos_cached,
          sin_cached, ckpt, load_ret, call, kv, conv_step>>

(***************************************************************************)
(* Bounds                                                                  *)
(***************************************************************************)
MaxVocab == 18      \* vocab_size ranges over 16..MaxVocab
MaxLayers == 2      \* num_hidden_layers ranges over 1..MaxLayers
MaxSeqLen == 3      \* sequence lengths range over 1..MaxSeqLen
MaxRep == 3         \* n_rep and kv-head counts range over 1..MaxRep

VocabSizes == 16..MaxVocab
\* positions 0..max_position_embeddings-1 are tabulated; every sequence fits
MaxPositions == MaxSeqLen + 2

(***************************************************************************)
(* Small helpers                                                           *)
(***************************************************************************)
Range(s) == {s[i] : i \in DOMAIN s}

RECURSIVE SumSeq(_)
SumSeq(s) == IF s = <<>> THEN 0 ELSE Head(s) + SumSeq(Tail(s))

RECURSIVE Flatten(_)
Flatten(ss) == IF ss = <<>> THEN <<>> ELSE Head(ss) \o Flatten(Tail(ss))

\* s[a..b-1] with 0-based, end-exclusive, clamped bounds (a Python slice)
Slice(s, a, b) ==
    LET lo == IF a < 0 THEN 0 ELSE a
        hi == IF b > Len(s) THEN Len(s) ELSE b
    IN  IF hi <= lo THEN <<>> ELSE [i \in 1..(hi - lo) |-> s[lo + i]]

None == [none |-> TRUE]

\* the value of F at e, with e evaluated once
With(e, F(_)) == CHOOSE r \in { F(x) : x \in {e} } : TRUE

(***************************************************************************)
(* Parameter names                                                         *)
(***************************************************************************)
ProjWeights == <<"q_proj.weight", "k_proj.weight", "v_proj.weight",
                 "o_proj.weight", "gate_proj.weight", "up_proj.weight",
                 "down_proj.weight">>

LmHeadKey == <<"lm_head.weight">>

\* names registered by one QwenDecoderLayer
LayerKeys(i) ==
    LET p == <<"layers", ToString(i)>>
    IN  { p \o <<"self_attn", w>> :
              w \in {"q_proj.weight", "k_proj.weight", "v_proj.weight",
                     "o_proj.weight", "q_norm.weight", "k_norm.weight"} }
        \cup { p \o <<"self_attn", "rotary_emb.inv_freq">> }
        \cup { p \o <<"mlp", w>> :
              w \in {"gate_proj.weight", "up_proj.weight", "down_proj.weight"} }
        \cup { p \o <<"input_layernorm.weight">>,
               p \o <<"post_attention_layernorm.weight">> }

\* QwenModel.state_dict().keys()
ModelKeys(n_layers) ==
    { <<"embed_tokens.weight">>, <<"norm.weight">> }
    \cup UNION { LayerKeys(i) : i \in 0..(n_layers - 1) }

\* rank of the tensor a QwenModel parameter holds
ParamRank(k) ==
    IF k[Len(k)] \in Range(ProjWeights) THEN 4
    ELSE IF k[Len(k)] = "embed_tokens.weight" THEN 2
    ELSE 1

(***************************************************************************)
(* Construction                                                            *)
(***************************************************************************)
\* the switches as the source file sets them
SourceFlags ==
    [ ENABLE_CONV2D |-> TRUE, ENABLE_VACAB_SPLIT |-> TRUE,
      ENABLE_VACAB_SPLIT8 |-> FALSE, ENABLE_VACAB_SPLIT16 |-> TRUE,
      ENABLE_LOGITS2 |-> TRUE ]

AllFlags ==
    [ ENABLE_CONV2D : BOOLEAN, ENABLE_VACAB_SPLIT : BOOLEAN,
      ENABLE_VACAB_SPLIT8 : BOOLEAN, ENABLE_VACAB_SPLIT16 : BOOLEAN,
      ENABLE_LOGITS2 : BOOLEAN ]

Configs ==
    [ vocab_size : VocabSizes, num_hidden_layers : 1..MaxLayers,
      max_position_embeddings : {MaxPositions} ]

\* a freshly initialised weight row: not a row of any checkpoint
InitRow == 0
InitWeight(n) == [r \in 1..n |-> InitRow]

HeadName(prefix, i) == <<prefix, ToString(i)>>

\* split_size of shard i (0-based) in the 16-way and 8-way constructors
SplitSize(V, N, i) == (V \div N) + (IF i < (V % N) THEN 1 ELSE 0)

\* size of each of the two shards the 2-way constructor creates
SplitSize2(V, i) == V \div 2

\* QwenForCausalLM.__init__: the head attributes it creates, by name
ConstructHeads(f, cfg) ==
    LET V == cfg.vocab_size
    IN  IF f.ENABLE_CONV2D THEN
            IF f.ENABLE_VACAB_SPLIT16 THEN
                [ nm \in {HeadName("lm_head16_", i + 1) : i \in 0..15} |->
                    LET i == CHOOSE j \in 0..15 : HeadName("lm_head16_", j + 1) = nm
                    IN  InitWeight(SplitSize(V, 16, i)) ]
            ELSE IF f.ENABLE_VACAB_SPLIT8 THEN
                [ nm \in {HeadName("lm_head8_", i + 1) : i \in 0..7} |->
                    LET i == CHOOSE j \in 0..7 : HeadName("lm_head8_", j + 1) = nm
                    IN  InitWeight(SplitSize(V, 8, i)) ]
            ELSE IF f.ENABLE_VACAB_SPLIT THEN
                [ nm \in {HeadName("lm_head2_", i + 1) : i \in 0..1} |->
                    LET i == CHOOSE j \in 0..1 : HeadName("lm_head2_", j + 1) = nm
                    IN  InitWeight(SplitSize2(V, i)) ]
            ELSE
                [ nm \in {<<"lm_head1">>} |-> InitWeight(V) ]
        ELSE
            [ nm \in {<<"lm_head">>} |-> InitWeight(V) ]

\* the rotary tables: entry p is the row computed for absolute position p-1
RotaryTable(kind, n) == [p \in 1..n |-> <<kind, p - 1>>]

InitTensor == [src |-> <<"init">>, rank |-> 0]

NoCall == [op |-> "none"]
NoKv == [op |-> "none"]
NoConvStep == [op |-> "none"]

Construct(f, cfg, coreml) ==
    /\ flags = f
    /\ config = cfg
    /\ enable_coreml = coreml
    /\ lm_heads = ConstructHeads(f, cfg)
    /\ state_dict = [k \in ModelKeys(cfg.num_hidden_layers) |->
                        [InitTensor EXCEPT !.rank = ParamRank(k)]]
    /\ cos_cached = RotaryTable("cos", cfg.max_position_embeddings)
    /\ sin_cached = RotaryTable("sin", cfg.max_position_embeddings)
    /\ ckpt = None
    /\ load_ret = "none"
    /\ call = NoCall
    /\ kv = NoKv
    /\ conv_step = NoConvStep

(***************************************************************************)
(* Checkpoints                                                             *)
(***************************************************************************)
IsRotaryBuffer(k) == \E i \in DOMAIN k : k[i] = "rotary_emb.inv_freq"

\* rank of the tensor a checkpoint stores under key k
CkptRank(k) ==
    IF k[Len(k)] \in Range(ProjWeights) \cup {"embed_tokens.weight", "lm_head.weight"}
    THEN 2 ELSE 1

\* row v (0-based) of the checkpoint's [V, H] head matrix
LmHeadRows(V) == [v \in 1..V |-> 100 + (v - 1)]

\* A checkpoint: the keys it stores and the rows of its head matrix.
\* prefixed: stack keys carry the "model." namespace; withRotary: the
\* inv_freq buffers are stored too; dropped / extra: keys left out / added;
\* head: where the head weight is stored ("exact", "prefixed" or "absent").
MakeCkpt(cfg, prefixed, withRotary, dropped, extra, head) ==
    LET base == { k \in ModelKeys(cfg.num_hidden_layers) :
                      withRotary \/ ~IsRotaryBuffer(k) } \ dropped
        stack == { IF prefixed THEN <<"model">> \o k ELSE k : k \in base }
        hk == CASE head = "exact" -> {LmHeadKey}
                [] head = "prefixed" -> {<<"model">> \o LmHeadKey}
                [] OTHER -> {}
    IN  [ keys |-> stack \cup extra \cup hk,
          lm_head |-> LmHeadRows(cfg.vocab_size) ]

\* what a checkpoint of the family stores beside the expected stack keys
CkptDefects ==
    { [withRotary |-> FALSE, dropped |-> {}, extra |-> {}],
      [withRotary |-> TRUE, dropped |-> {}, extra |-> {}],
      [withRotary |-> FALSE, dropped |-> {<<"norm.weight">>}, extra |-> {}],
      [withRotary |-> FALSE, dropped |-> {}, extra |-> {<<"model", "extra.weight">>}] }

Checkpoints(cfg) ==
    { MakeCkpt(cfg, prefixed, d.withRotary, d.dropped, d.extra, head) :
        prefixed \in BOOLEAN, d \in CkptDefects,
        head \in {"exact", "prefixed", "absent"} }

(***************************************************************************)
(* QwenModel.load_pretrained_weights                                       *)
(***************************************************************************)
StartsWithModel(k) == Len(k) > 1 /\ k[1] = "model"

\* k.replace("model.", ""): every "model" fragment followed by a dot goes
RECURSIVE ReplaceModel(_)
ReplaceModel(k) ==
    IF Len(k) <= 1 THEN k
    ELSE IF Head(k) = "model" THEN ReplaceModel(Tail(k))
    ELSE <<Head(k)>> \o ReplaceModel(Tail(k))

NewKey(k) == IF StartsWithModel(k) THEN ReplaceModel(k) ELSE k

ContainsLmHead(k) == \E i \in DOMAIN k : k[i] = "lm_head.weight"

ContainsProj(k) == \E i \in DOMAIN k : k[i] \in Range(ProjWeights)

\* the tensor stored under new_k in conv_state
ConvTensor(k) ==
    IF ContainsProj(NewKey(k))
    THEN [src |-> k, rank |-> 4]
    ELSE [src |-> k, rank |-> CkptRank(k)]

\* conv_state: translated key -> tensor (checkpoint keys of the family
\* translate to distinct keys, so no entry is overwritten)
ConvState(ck) ==
    With({ k \in ck.keys : ~ContainsLmHead(NewKey(k)) }, LAMBDA kept :
        [ nk \in { NewKey(k) : k \in kept } |->
            ConvTensor(CHOOSE k \in kept : NewKey(k) = nk) ])

\* load_state_dict(conv_state, strict=False): assigns every entry whose name
\* and shape match, reports the rest, raises on a shape mismatch
LoadStateDict(sd, conv) ==
    With({ k \in DOMAIN sd \cap DOMAIN conv : conv[k].rank = sd[k].rank }, LAMBDA match :
        [ sd |-> [k \in DOMAIN sd |-> IF k \in match THEN conv[k] ELSE sd[k]],
          missing |-> DOMAIN sd \ DOMAIN conv,
          unexpected |-> DOMAIN conv \ DOMAIN sd,
          raised |-> (DOMAIN sd \cap DOMAIN conv) \ match # {} ])

\* missing = [m for m in missing if "rotary_emb.inv_freq" not in m]
TolerateRotary(missing) == { m \in missing : ~IsRotaryBuffer(m) }

QwenModel_load(sd, ck) ==
    With(ConvState(ck), LAMBDA conv :
    With(LoadStateDict(sd, conv), LAMBDA r :
    With(TolerateRotary(r.missing), LAMBDA missing :
        [ sd |-> r.sd,
          missing |-> missing,
          unexpected |-> r.unexpected,
          ret |-> IF r.raised THEN "raise"
                  ELSE IF missing = {} /\ r.unexpected = {} THEN "true"
                  ELSE "false" ])))

(***************************************************************************)
(* QwenForCausalLM.load_pretrained_weights                                 *)
(***************************************************************************)
\* torch.split(w, sizes): contiguous blocks in order; the sizes must add up
SplitOK(w, sizes) == SumSeq(sizes) = Len(w)

TorchSplit(w, sizes) ==
    [ k \in 1..Len(sizes) |->
        LET off == SumSeq(SubSeq(sizes, 1, k - 1))
        IN  Slice(w, off, off + sizes[k]) ]

\* split_sizes of the 16-way and 8-way loaders
SplitSizes(V, N) == [k \in 1..N |-> SplitSize(V, N, k - 1)]

\* sizes the 2-way loader splits by
SplitSizes2(V) == << V \div 2, V - (V \div 2) >>

\* the (attribute name, weight block) pairs the loader copies, in order
HeadAssignments(f, cfg, w) ==
    LET V == cfg.vocab_size
        Named(prefix, sizes) ==
            With(TorchSplit(w, sizes), LAMBDA splits :
                [ k \in 1..Len(sizes) |->
                    [name |-> HeadName(prefix, k), rows |-> splits[k]] ])
    IN  IF f.ENABLE_CONV2D THEN
            IF f.ENABLE_VACAB_SPLIT16 THEN
                [ok |-> SplitOK(w, SplitSizes(V, 16)),
                 copies |-> Named("lm_head16_", SplitSizes(V, 16))]
            ELSE IF f.ENABLE_VACAB_SPLIT8 THEN
                [ok |-> SplitOK(w, SplitSizes(V, 8)),
                 copies |-> Named("lm_head8_", SplitSizes(V, 8))]
            ELSE IF f.ENABLE_VACAB_SPLIT THEN
                [ok |-> SplitOK(w, SplitSizes2(V)),
                 copies |-> Named("lm_head2_", SplitSizes2(V))]
            ELSE
                [ok |-> TRUE, copies |-> << [name |-> <<"lm_head1">>, rows |-> w] >>]
        ELSE
            [ok |-> TRUE, copies |-> << [name |-> <<"lm_head">>, rows |-> w] >>]

\* dst.copy_(src): src must have dst's shape or broadcast to it
CopyOK(dst, src) == Len(src) = Len(dst) \/ Len(src) = 1

CopyInto(dst, src) ==
    IF Len(src) = Len(dst) THEN src ELSE [r \in DOMAIN dst |-> src[1]]

\* the copies run in order; the first one that fails raises and ends the load
RECURSIVE CopyAll(_, _)
CopyAll(heads, copies) ==
    IF copies = <<>> THEN [heads |-> heads, raised |-> FALSE]
    ELSE LET c == Head(copies)
         IN  IF c.name \notin DOMAIN heads \/ ~CopyOK(heads[c.name], c.rows)
             THEN [heads |-> heads, raised |-> TRUE]
             ELSE CopyAll([heads EXCEPT ![c.name] = CopyInto(heads[c.name], c.rows)],
                          Tail(copies))

CausalLM_load(f, cfg, heads, sd, ck) ==
    With(QwenModel_load(sd, ck), LAMBDA m :
        IF m.ret # "true" THEN [sd |-> m.sd, heads |-> heads, ret |-> m.ret]
        ELSE IF LmHeadKey \notin ck.keys THEN [sd |-> m.sd, heads |-> heads, ret |-> "false"]
        ELSE With(HeadAssignments(f, cfg, ck.lm_head), LAMBDA a :
            IF ~a.ok THEN [sd |-> m.sd, heads |-> heads, ret |-> "raise"]
            ELSE With(CopyAll(heads, a.copies), LAMBDA c :
                [sd |-> m.sd, heads |-> c.heads,
                 ret |-> IF c.raised THEN "raise" ELSE "true"])))

\* load_pretrained_weights(model_path), once per instance
Load ==
    /\ load_ret = "none"
    /\ \E ck \in Checkpoints(config) :
         \E r \in {CausalLM_load(flags, config, lm_heads, state_dict, ck)} :
             /\ ckpt' = ck
             /\ state_dict' = r.sd
             /\ lm_heads' = r.heads
             /\ load_ret' = r.ret
    /\ UNCHANGED <<flags, config, enable_coreml, cos_cached, sin_cached, call, kv,
                   conv_step>>

(***************************************************************************)
(* Call arguments.  A tensor is its shape and its elements in row-major    *)
(* order; token ids are taken to be in range and only their shape kept.    *)
(***************************************************************************)
Tensor(shape, data) == [shape |-> shape, data |-> data]

Rank(t) == Len(t.shape)

\* t.shape[-1]
LastDim(t) == t.shape[Len(t.shape)]

\* t.squeeze(0)
Squeeze0(t) ==
    IF Rank(t) >= 1 /\ t.shape[1] = 1
    THEN [t EXCEPT !.shape = Tail(t.shape)]
    ELSE t

RankShape(rank, n) == [i \in 1..rank |-> IF i = rank THEN n ELSE 1]

(***************************************************************************)
(* QwenRotaryEmbedding.forward                                             *)
(***************************************************************************)
\* table[:, pos_ids]: one table row per index, negative indices count from
\* the end, anything else out of range raises
GatherOK(table, ids) ==
    \A i \in DOMAIN ids : ids[i] < Len(table) /\ ids[i] >= -Len(table)

Gather(table, ids) ==
    [ i \in DOMAIN ids |->
        table[(IF ids[i] < 0 THEN ids[i] + Len(table) ELSE ids[i]) + 1] ]

\* a lookup keyed by the sequence index
RotaryIndexSequential(pos_ids, s) == s

\* the index the lookup uses for the row at sequence index s (0-based)
RotaryIndex(pos_ids, s) == pos_ids.data[s + 1]

\* x is the hidden state [B, S, H], given by S; the result carries the
\* leading dimensions of the returned [1, ..., D] tensors
RotaryForward(cos_tab, sin_tab, seq_len, position_ids) ==
    IF position_ids # None THEN
        With(IF Rank(position_ids) = 1 THEN position_ids
             ELSE Squeeze0(position_ids), LAMBDA pos_ids :
        With([s \in 1..Len(pos_ids.data) |-> RotaryIndex(pos_ids, s - 1)], LAMBDA ids :
            IF ~GatherOK(cos_tab, ids)
            THEN [ok |-> FALSE, shape |-> <<>>, cos |-> <<>>, sin |-> <<>>]
            ELSE [ok |-> TRUE, shape |-> <<1>> \o pos_ids.shape,
                  cos |-> Gather(cos_tab, ids), sin |-> Gather(sin_tab, ids)]))
    ELSE
        [ok |-> TRUE, shape |-> <<1, Len(Slice(cos_tab, 0, seq_len))>>,
         cos |-> Slice(cos_tab, 0, seq_len), sin |-> Slice(sin_tab, 0, seq_len)]

(***************************************************************************)
(* QwenAttention.forward: shapes, rotary lookup and mask bias              *)
(***************************************************************************)
\* a [1, 1, R, C] mask; its element at row i, column j (0-based) is named
\* by the pair <<i, j>>
MaskTensor(R, C) ==
    [shape |-> <<1, 1, R, C>>,
     m |-> [i \in 1..R |-> [j \in 1..C |-> <<i - 1, j - 1>>]]]

\* a slice that keeps the last n_rows rows: mask[:, :, -n_rows:, :n_cols]
MaskSliceLastRows(mask, n_rows, n_cols) ==
    With(Slice(mask.m, Len(mask.m) - n_rows, Len(mask.m)), LAMBDA rows :
        [shape |-> <<mask.shape[1], 1, Len(rows),
                     IF n_cols < mask.shape[4] THEN n_cols ELSE mask.shape[4]>>,
         m |-> [i \in DOMAIN rows |-> Slice(rows[i], 0, n_cols)]])

\* mask[:, :, :n_rows, :n_cols] of a [_, 1, R, C] mask
MaskSlice(mask, n_rows, n_cols) ==
    With(Slice(mask.m, 0, n_rows), LAMBDA rows :
        [shape |-> <<mask.shape[1], 1, Len(rows),
                     IF n_cols < mask.shape[4] THEN n_cols ELSE mask.shape[4]>>,
         m |-> [i \in DOMAIN rows |-> Slice(rows[i], 0, n_cols)]])

\* element [i][j] of the bias added to the [S, S] scores: the slice,
\* broadcast along the dimensions in which it has size 1
AttnBias(slice, S) ==
    [ i \in 1..S |-> [ j \in 1..S |->
        slice.m[IF slice.shape[3] = 1 THEN 1 ELSE i]
               [IF slice.shape[4] = 1 THEN 1 ELSE j] ] ]

BroadcastsTo(d, S) == d = S \/ d = 1

\* One attention block on a hidden state whose dimensions before the hidden
\* axis are hshape ([B, S] for a rank-3 hidden state).  ok is FALSE when a
\* tensor operation of the block raises.
Attention(cos_tab, sin_tab, hshape, causal_mask, position_ids) ==
    IF Len(hshape) # 2 THEN [ok |-> FALSE, rot |-> None, bias |-> None]
    ELSE
    With(hshape[2], LAMBDA S :
    With(RotaryForward(cos_tab, sin_tab, S, position_ids), LAMBDA rot :
        \* cos.unsqueeze(1) against q [B, Nq, S, D]
        IF ~rot.ok \/ ~(\/ Len(rot.shape) = 1
                        \/ Len(rot.shape) = 2 /\ BroadcastsTo(rot.shape[2], S))
        THEN [ok |-> FALSE, rot |-> rot, bias |-> None]
        ELSE IF causal_mask = None THEN [ok |-> TRUE, rot |-> rot, bias |-> None]
        ELSE With(MaskSlice(causal_mask, S, S), LAMBDA slice :
            IF ~(BroadcastsTo(slice.shape[3], S) /\ BroadcastsTo(slice.shape[4], S))
            THEN [ok |-> FALSE, rot |-> rot, bias |-> None]
            ELSE [ok |-> TRUE, rot |-> rot, bias |-> [m |-> AttnBias(slice, S)]])))

NoAttention == [ok |-> TRUE, rot |-> None, bias |-> None]

(***************************************************************************)
(* QwenModel.forward                                                       *)
(***************************************************************************)
LayerName(i) == <<"layers", ToString(i)>>

\* the modules applied so far, in order of application
RECURSIVE RunLayers(_, _, _)
RunLayers(i, n_layers, layer_ok) ==
    IF i >= n_layers THEN [ok |-> TRUE, ops |-> <<>>]
    ELSE IF ~layer_ok THEN [ok |-> FALSE, ops |-> <<>>]
    ELSE LET rest == RunLayers(i + 1, n_layers, layer_ok)
         IN  [ok |-> rest.ok, ops |-> <<LayerName(i)>> \o rest.ops]

\* a stack that normalises in both modes
AppliesNormAlways(IN_PREFILL) == TRUE

\* whether the stack ends with self.norm
AppliesNorm(IN_PREFILL) == ~IN_PREFILL

\* hidden state: rows on the sequence axis (by sequence index) and the
\* modules that produced them
QwenModel_forward(cfg, cos_tab, sin_tab, input_ids, causal_mask, position_ids, IN_PREFILL) ==
    With(Attention(cos_tab, sin_tab, input_ids.shape, causal_mask, position_ids), LAMBDA att :
    With(RunLayers(0, cfg.num_hidden_layers, att.ok), LAMBDA run :
    With(<<<<"embed_tokens">>>> \o run.ops, LAMBDA ops :
        IF ~run.ok THEN [ok |-> FALSE, ops |-> ops, rows |-> <<>>, att |-> att]
        ELSE [ok |-> TRUE,
              ops |-> IF AppliesNorm(IN_PREFILL) THEN ops \o <<<<"norm">>>> ELSE ops,
              rows |-> [s \in 1..input_ids.shape[2] |-> s - 1],
              att |-> att])))

(***************************************************************************)
(* QwenForCausalLM.forward                                                 *)
(***************************************************************************)
\* a validation without the prefill-mode length assertion
ForwardValidNoLength(input_ids, position_ids, IN_PREFILL) ==
    /\ Rank(input_ids) = 2
    /\ position_ids # None
    /\ IN_PREFILL \/ Rank(position_ids) \in {1, 2}

\* the three assertions at the top of forward; a None position_ids raises
\* on the attribute access, a 0-dim one on shape[-1]
ForwardValid(input_ids, position_ids, IN_PREFILL) ==
    /\ Rank(input_ids) = 2
    /\ position_ids # None
    /\ IF ~IN_PREFILL
       THEN Rank(position_ids) \in {1, 2}
       ELSE Rank(position_ids) >= 1 /\ LastDim(position_ids) = LastDim(input_ids)

\* pos_tensor: the index tensor handed to index_select
PosTensor(current_pos) ==
    IF current_pos.kind = "tensor"
    THEN IF Rank(current_pos) > 0 THEN current_pos
         ELSE Tensor(<<1>>, current_pos.data)
    ELSE Tensor(<<1>>, current_pos.data)

\* a selection that always takes the last row of the sequence
SelectedRowLast(rows, p) == rows[Len(rows)]

\* the row index_select takes for index value p
SelectedRow(rows, p) == rows[p + 1]

\* torch.index_select(hidden_states, dim=1, index): index is 1-D, in range
IndexSelectOK(rows, index) ==
    /\ Rank(index) = 1
    /\ \A i \in DOMAIN index.data : index.data[i] >= 0 /\ index.data[i] < Len(rows)

IndexSelect(rows, index) ==
    [i \in DOMAIN index.data |-> SelectedRow(rows, index.data[i])]

\* whether forward extracts the row at current_pos
Extracts(current_pos, IN_PREFILL) == ~IN_PREFILL /\ current_pos # None

\* a 1x1 Conv2d head on a hidden state: logits [B, S', rows of w], the
\* element at (s, v) being the projection of hidden row s by weight row v
Project(w, hidden) == [h |-> hidden, w |-> w]

\* torch.cat(parts, dim=2)
CatLogits(parts) == [h |-> parts[1].h, w |-> Flatten([k \in DOMAIN parts |-> parts[k].w])]

\* the head attributes forward reads, in the order it reads them
ForwardHeadNames(f) ==
    IF f.ENABLE_CONV2D THEN
        IF f.ENABLE_VACAB_SPLIT16 THEN [k \in 1..16 |-> HeadName("lm_head16_", k)]
        ELSE IF f.ENABLE_VACAB_SPLIT8 THEN [k \in 1..8 |-> HeadName("lm_head8_", k)]
        ELSE IF f.ENABLE_VACAB_SPLIT THEN [k \in 1..2 |-> HeadName("lm_head2_", k)]
        ELSE << <<"lm_head1">> >>
    ELSE << <<"lm_head">> >>

\* a tuple return that looks at ENABLE_LOGITS2 only
ReturnsTupleNoCoreml(f, coreml) ==
    /\ f.ENABLE_CONV2D
    /\ f.ENABLE_VACAB_SPLIT16 \/ f.ENABLE_VACAB_SPLIT8 \/ f.ENABLE_VACAB_SPLIT
    /\ f.ENABLE_LOGITS2

\* whether forward returns the partial logits as a tuple
ReturnsTuple(f, coreml) ==
    /\ f.ENABLE_CONV2D
    /\ f.ENABLE_VACAB_SPLIT16 \/ f.ENABLE_VACAB_SPLIT8 \/ f.ENABLE_VACAB_SPLIT
    /\ coreml /\ f.ENABLE_LOGITS2

\* a merge that takes the partial logits last shard first
CatOrderReversed(parts) == [k \in DOMAIN parts |-> parts[Len(parts) + 1 - k]]

\* order in which the merged logits take the partial logits
CatOrder(parts) == parts

LmHead(f, coreml, heads, hidden) ==
    With(ForwardHeadNames(f), LAMBDA names :
        IF \E k \in DOMAIN names : names[k] \notin DOMAIN heads
        THEN [ok |-> FALSE, kind |-> "none", parts |-> <<>>]
        ELSE With([k \in DOMAIN names |-> Project(heads[names[k]], hidden)], LAMBDA parts :
            IF ReturnsTuple(f, coreml)
            THEN [ok |-> TRUE, kind |-> "tuple", parts |-> parts]
            ELSE [ok |-> TRUE, kind |-> "tensor",
                  parts |-> <<CatLogits(CatOrder(parts))>>]))

NoHidden == [rows |-> <<>>, ops |-> <<>>]
NoResult == [ok |-> FALSE, kind |-> "none", parts |-> <<>>]

Args(input_ids, position_ids, causal_mask, current_pos, IN_PREFILL) ==
    [ input_ids |-> input_ids, position_ids |-> position_ids,
      causal_mask |-> causal_mask, current_pos |-> current_pos,
      IN_PREFILL |-> IN_PREFILL ]

\* the record of one call: where it ended ("validate", "stack", "select",
\* "head" when it raised there, "return" otherwise), the decoder-stack
\* output, the hidden state handed to the head and the value returned
NoCallRecord(op, a) ==
    [op |-> op, args |-> a, ended |-> "validate", ran_stack |-> FALSE,
     stack |-> NoHidden, att |-> NoAttention, head_in |-> NoHidden,
     result |-> NoResult]

CausalLM_forward(f, cfg, coreml, heads, cos_tab, sin_tab, a) ==
    IF ~ForwardValid(a.input_ids, a.position_ids, a.IN_PREFILL)
    THEN NoCallRecord("forward", a)
    ELSE
    With(QwenModel_forward(cfg, cos_tab, sin_tab, a.input_ids,
                           a.causal_mask, a.position_ids, a.IN_PREFILL), LAMBDA m :
    With([NoCallRecord("forward", a) EXCEPT
            !.ran_stack = TRUE, !.stack = [rows |-> m.rows, ops |-> m.ops],
            !.att = m.att], LAMBDA ran :
        IF ~m.ok THEN [ran EXCEPT !.ended = "stack"]
        ELSE IF ~Extracts(a.current_pos, a.IN_PREFILL)
        THEN With(LmHead(f, coreml, heads, ran.stack), LAMBDA out :
                [ran EXCEPT !.ended = IF out.ok THEN "return" ELSE "head",
                            !.head_in = ran.stack, !.result = out])
        ELSE With(PosTensor(a.current_pos), LAMBDA idx :
            IF ~IndexSelectOK(m.rows, idx) THEN [ran EXCEPT !.ended = "select"]
            ELSE With([ran.stack EXCEPT !.rows = IndexSelect(m.rows, idx)], LAMBDA head_in :
                 With(LmHead(f, coreml, heads, head_in), LAMBDA out :
                    [ran EXCEPT !.ended = IF out.ok THEN "return" ELSE "head",
                                !.head_in = head_in, !.result = out])))))

\* a forward whose rotary lookup keeps the rows it gathered as the new table
ForwardCaching(a) ==
    /\ \E r \in {CausalLM_forward(flags, config, enable_coreml, lm_heads,
                                   cos_cached, sin_cached, a)} :
         /\ call' = r
         /\ cos_cached' = IF r.att.rot # None /\ r.att.rot.ok
                          THEN r.att.rot.cos ELSE cos_cached
    /\ UNCHANGED <<flags, config, enable_coreml, lm_heads, state_dict,
                   sin_cached, ckpt, load_ret, kv, conv_step>>

Forward(a) ==
    /\ \E r \in {CausalLM_forward(flags, config, enable_coreml, lm_heads,
                                   cos_cached, sin_cached, a)} : call' = r
    /\ UNCHANGED <<flags, config, enable_coreml, lm_heads, state_dict,
                   cos_cached, sin_cached, ckpt, load_ret, kv, conv_step>>

(***************************************************************************)
(* QwenForCausalLM.prefill_kv_cache                                        *)
(***************************************************************************)
\* causal_mask[:, :, :seq_len, :]
PrefillSlice(causal_mask, seq_len) ==
    IF causal_mask = None THEN None
    ELSE MaskSlice(causal_mask, seq_len, causal_mask.shape[4])

\* the mode prefill_kv_cache runs the stack in
PrefillMode == TRUE

\* start_pos is passed through to the stack, which does not use it
CausalLM_prefill(cfg, cos_tab, sin_tab, a) ==
    IF Rank(a.input_ids) < 2 THEN NoCallRecord("prefill", a)
    ELSE
    With(a.input_ids.shape[2], LAMBDA seq_len :
    With(QwenModel_forward(cfg, cos_tab, sin_tab, a.input_ids,
                           PrefillSlice(a.causal_mask, seq_len),
                           a.position_ids, PrefillMode), LAMBDA m :
        [NoCallRecord("prefill", a) EXCEPT
            !.ended = IF m.ok THEN "return" ELSE "stack",
            !.ran_stack = TRUE, !.stack = [rows |-> m.rows, ops |-> m.ops],
            !.att = m.att]))

Prefill(a) ==
    /\ \E r \in {CausalLM_prefill(config, cos_cached, sin_cached, a)} : call' = r
    /\ UNCHANGED <<flags, config, enable_coreml, lm_heads, state_dict,
                   cos_cached, sin_cached, ckpt, load_ret, kv, conv_step>>

(***************************************************************************)
(* repeat_kv                                                               *)
(***************************************************************************)
RECURSIVE Prod(_)
Prod(s) == IF s = <<>> THEN 1 ELSE Head(s) * Prod(Tail(s))

\* 0-based multi-index of the element at 0-based offset k, row-major
Unravel(shape, k) ==
    [ d \in DOMAIN shape |->
        (k \div Prod(SubSeq(shape, d + 1, Len(shape)))) % shape[d] ]

\* 0-based row-major offset of a 0-based multi-index
Ravel(shape, idx) ==
    SumSeq([ d \in DOMAIN shape |->
               idx[d] * Prod(SubSeq(shape, d + 1, Len(shape))) ])

\* x[:, :, None, :, :].repeat(1, 1, n_rep, 1, 1): element [b, i, r, s, d]
\* of the [B, Nkv, n_rep, S, D] result is x[b, i, s, d]
RepeatSource(idx5) == << idx5[1], idx5[2], idx5[4], idx5[5] >>

\* a repetition that tiles the kv heads: x.repeat(1, n_rep, 1, 1)
RepeatKvTiled(x, n_rep) ==
    LET shape == <<x.shape[1], x.shape[2] * n_rep, x.shape[3], x.shape[4]>>
    IN  Tensor(shape,
               [ k \in 1..Prod(shape) |->
                   LET idx == Unravel(shape, k - 1)
                   IN  x.data[Ravel(x.shape, <<idx[1], idx[2] % x.shape[2],
                                               idx[3], idx[4]>>) + 1] ])

RepeatKv(x, n_rep) ==
    IF n_rep = 1 THEN x
    ELSE LET B == x.shape[1]
             n_kv == x.shape[2]
             S == x.shape[3]
             D == x.shape[4]
             shape5 == <<B, n_kv, n_rep, S, D>>
             data5 == [ k \in 1..Prod(shape5) |->
                          x.data[Ravel(x.shape, RepeatSource(Unravel(shape5, k - 1))) + 1] ]
         \* .view(bsz, n_kv * n_rep, seq_len, head_dim) keeps the elements
         IN  Tensor(<<B, n_kv * n_rep, S, D>>, data5)

\* a [B, Nkv, S, D] tensor whose elements are all different
KvTensor(B, n_kv, S, D) ==
    Tensor(<<B, n_kv, S, D>>, [k \in 1..(B * n_kv * S * D) |-> k - 1])

ApplyRepeatKv ==
    /\ \E B \in 1..2, n_kv \in 1..MaxRep, S \in 1..MaxSeqLen, D \in 1..2, n_rep \in 1..MaxRep :
         \E x \in {KvTensor(B, n_kv, S, D)} :
             kv' = [ op |-> "repeat_kv", x |-> x, n_rep |-> n_rep,
                     out |-> RepeatKv(x, n_rep) ]
    /\ UNCHANGED <<flags, config, enable_coreml, lm_heads, state_dict,
                   cos_cached, sin_cached, ckpt, load_ret, call, conv_step>>

(***************************************************************************)
(* The key translation of QwenModel.load_pretrained_weights, entry by      *)
(* entry                                                                   *)
(***************************************************************************)
\* Fragments of checkpoint key names.  A key is its fragments joined by
\* dots; "model" is the only fragment that ends with the text "model", and
\* the head name, the projection names and the rotary buffer name occur in
\* a key only as whole fragments of it.
KeyFragments ==
    {"model", "layers", "norm.weight", "absmax", "lm_head.weight"}
    \cup Range(ProjWeights)

MaxKeyLen == 3      \* keys have 1..MaxKeyLen fragments

CkptKeys == UNION { [1..n -> KeyFragments] : n \in 1..MaxKeyLen }

\* a tensor whose elements are all different
Arange(shape) == Tensor(shape, [k \in 1..Prod(shape) |-> k - 1])

\* tensors a checkpoint may store under a key: rank 1, 2 and 3
CkptTensors == { Arange(sh) : sh \in {<<2>>, <<2, 3>>, <<2, 3, 1>>, <<2, 3, 2>>} }

\* v.view(v.shape[0], v.shape[1], 1, 1): shape[1] must exist and the
\* element count must be kept
ViewOK(v) == Rank(v) >= 2 /\ Prod(v.shape) = v.shape[1] * v.shape[2]

View4(v) == Tensor(<<v.shape[1], v.shape[2], 1, 1>>, v.data)

\* One iteration of the loop over state_dict.items(): the translated key
\* and what happens to the tensor ("skipped": continue; "stored": put in
\* conv_state under new_k; "raise": the view raises).
ConvEntry(k, v) ==
    With(NewKey(k), LAMBDA new_k :
    With([op |-> "translate", key |-> k, v |-> v, new_k |-> new_k,
          outcome |-> "skipped", out |-> None], LAMBDA skip :
        IF ContainsLmHead(new_k) THEN skip
        ELSE IF ContainsProj(new_k) THEN
            IF ViewOK(v)
            THEN [skip EXCEPT !.outcome = "stored", !.out = View4(v)]
            ELSE [skip EXCEPT !.outcome = "raise"]
        ELSE [skip EXCEPT !.outcome = "stored", !.out = v]))

\* the translation of one entry depends on that entry only
TranslateEntry ==
    /\ conv_step.op = "none"
    /\ \E k \in CkptKeys, v \in CkptTensors : conv_step' = ConvEntry(k, v)
    /\ UNCHANGED <<flags, config, enable_coreml, lm_heads, state_dict,
                   cos_cached, sin_cached, ckpt, load_ret, call, kv>>

(***************************************************************************)
(* Inputs                                                                  *)
(***************************************************************************)
CurInt(k) == [kind |-> "int", shape |-> <<>>, data |-> <<k>>]
CurTensor(shape, data) == [kind |-> "tensor", shape |-> shape, data |-> data]

Positions(p0, L) == [i \in 1..L |-> p0 + (i - 1)]

StartPositions == {0, 2, MaxPositions - 1}

InputIdsSet == { Tensor(RankShape(r, S), <<>>) : r \in 1..3, S \in 1..MaxSeqLen }

PositionIdsSet ==
    {None}
    \cup { Tensor(<<>>, <<p0>>) : p0 \in StartPositions }
    \cup { Tensor(RankShape(r, L), Positions(p0, L)) :
             r \in 1..3, L \in 1..MaxSeqLen, p0 \in StartPositions }

CurrentPosSet ==
    {None}
    \cup { CurInt(k) : k \in 0..MaxSeqLen }
    \cup { CurTensor(<<>>, <<k>>) : k \in 0..MaxSeqLen }
    \cup { CurTensor(<<1>>, <<k>>) : k \in 0..MaxSeqLen }

\* no mask, a square mask longer than every sequence, a mask with fewer
\* rows than columns and a mask shorter than the longest sequence
MaskSet ==
    { None, MaskTensor(MaxSeqLen + 1, MaxSeqLen + 1),
      MaskTensor(MaxSeqLen, MaxSeqLen + 1), MaskTensor(2, 2) }

ServeMasks == { None, MaskTensor(MaxSeqLen + 1, MaxSeqLen + 1) }

CallArgs ==
    { Args(ii, pi, cm, cp, pf) :
        ii \in InputIdsSet, pi \in PositionIdsSet, cm \in MaskSet,
        cp \in CurrentPosSet, pf \in BOOLEAN }

\* prefill_kv_cache has no IN_PREFILL argument; start_pos takes current_pos
PrefillArgs ==
    { Args(ii, pi, cm, None, TRUE) :
        ii \in InputIdsSet, pi \in PositionIdsSet, cm \in MaskSet }

\* a two-token prompt, decoded at its last position or projected whole
HeadCallArgs ==
    { Args(Tensor(<<1, 2>>, <<>>), Tensor(<<2>>, Positions(0, 2)), None, cp, pf) :
        cp \in {None, CurInt(1)}, pf \in BOOLEAN }

(***************************************************************************)
(* Specifications                                                          *)
(***************************************************************************)
\* Spec: every setting of the switches; an instance is constructed, loaded
\* once and then serves forward calls
HeadForward ==
    /\ load_ret # "none"
    /\ \E a \in HeadCallArgs : Forward(a)

InitHead ==
    \E f \in AllFlags, cfg \in Configs, coreml \in BOOLEAN :
        /\ cfg.num_hidden_layers = 1
        /\ Construct(f, cfg, coreml)

Next == Load \/ HeadForward

Spec == InitHead /\ [][Next]_vars

\* SpecCall: the switches as the source sets them.  A host makes a first
\* forward or prefill_kv_cache call with any arguments, then keeps calling
\* the instance with the same tensors and a new current_pos (decode steps)
\* or primes it again.
FirstForward ==
    /\ call.op = "none"
    /\ \E a \in CallArgs : Forward(a)

FirstPrefill ==
    /\ call.op = "none"
    /\ \E a \in PrefillArgs : Prefill(a)

DecodeStep ==
    /\ call.op # "none"
    /\ \E k \in 0..MaxSeqLen :
         Forward([call.args EXCEPT !.current_pos = CurInt(k), !.IN_PREFILL = FALSE])

PrefillAgain ==
    /\ call.op # "none"
    /\ Prefill([call.args EXCEPT !.current_pos = None, !.IN_PREFILL = TRUE])

InitCall ==
    \E cfg \in Configs :
        /\ cfg.vocab_size = 16
        /\ Construct(SourceFlags, cfg, FALSE)

NextCall == FirstForward \/ FirstPrefill \/ DecodeStep \/ PrefillAgain

SpecCall == InitCall /\ [][NextCall]_vars

\* SpecKv: repeat_kv applied to tensors of every small shape
NextKv == ApplyRepeatKv

SpecKv == InitCall /\ [][NextKv]_vars

\* SpecServe: an instance with the source's switches is loaded once and
\* then serves forward and prefill_kv_cache calls in any order, calls that
\* fail included
ServeInputIds == { Tensor(<<MaxSeqLen>>, <<>>), Tensor(<<1, MaxSeqLen>>, <<>>) }

ServePositionIds ==
    { None, Tensor(<<MaxSeqLen>>, Positions(0, MaxSeqLen)),
      Tensor(<<1>>, <<MaxPositions - 1>>), Tensor(<<1>>, <<MaxPositions>>) }

ServeArgs ==
    { Args(ii, pi, cm, cp, pf) :
        ii \in ServeInputIds, pi \in ServePositionIds, cm \in ServeMasks,
        cp \in {None, CurInt(0), CurInt(MaxSeqLen)}, pf \in BOOLEAN }

ServePrefillArgs ==
    { Args(ii, pi, cm, None, TRUE) :
        ii \in ServeInputIds, pi \in ServePositionIds, cm \in ServeMasks }

ServeForward ==
    /\ load_ret # "none"
    /\ \E a \in ServeArgs : Forward(a)

ServePrefill ==
    /\ load_ret # "none"
    /\ \E a \in ServePrefillArgs : Prefill(a)

NextServe == Load \/ ServeForward \/ ServePrefill

SpecServe == InitCall /\ [][NextServe]_vars

\* SpecKeys: the key translation applied to every small key and tensor
NextKeys == TranslateEntry

SpecKeys == InitCall /\ [][NextKeys]_vars
(***************************************************************************)
(* Properties                                                              *)
(***************************************************************************)
\* the partition degree the switches select (1: unsplit)
PartitionDegree ==
    IF ~flags.ENABLE_CONV2D THEN 1
    ELSE IF flags.ENABLE_VACAB_SPLIT16 THEN 16
    ELSE IF flags.ENABLE_VACAB_SPLIT8 THEN 8
    ELSE IF flags.ENABLE_VACAB_SPLIT THEN 2
    ELSE 1

\* shard i (0-based) of the instance, in shard order
Shard(i) == lm_heads[ForwardHeadNames(flags)[i + 1]]

Returned(op) == call.op = op /\ call.ended = "return"

\* C1: for N in {2, 8, 16} and V >= N, shard i has V div N rows plus one
\* when i < V mod N, so the shard sizes add up to V.
C1_ShardSizes ==
    LET N == PartitionDegree
        V == config.vocab_size
    IN  (N > 1 /\ V >= N) =>
            /\ \A i \in 0..(N - 1) :
                 Len(Shard(i)) = (V \div N) + (IF i < V % N THEN 1 ELSE 0)
            /\ SumSeq([k \in 1..N |-> Len(Shard(k - 1))]) = V

\* first checkpoint row (0-based) held by shard k (0-based): the sizes of
\* the shards before it, added up
ShardStart(k) == SumSeq([j \in 1..k |-> Len(Shard(j - 1))])

\* C2: after a successful load the merged logits forward returns are the
\* unsplit projection of the same hidden state by the checkpoint's V head
\* rows in order, and shard k holds the contiguous checkpoint rows starting
\* at the sum of the sizes of the shards before it.
C2_MergedEqualsUnsplit ==
    load_ret = "true" =>
        /\ \A k \in 0..(PartitionDegree - 1) :
             Shard(k) = Slice(ckpt.lm_head, ShardStart(k), ShardStart(k) + Len(Shard(k)))
        /\ (Returned("forward") /\ call.result.kind = "tensor") =>
             call.result.parts = << Project(ckpt.lm_head, call.head_in) >>

C2_Witness ==
    /\ load_ret = "true"
    /\ Returned("forward") /\ call.result.kind = "tensor"
    /\ PartitionDegree = 16 /\ config.vocab_size = 17
    /\ Len(call.result.parts[1].w) = 17

\* the call's current_pos is an int, a 0-dim tensor or a length-1 tensor
\* holding a position inside the sequence
CurrentPosInRange ==
    /\ call.args.current_pos # None
    /\ call.args.current_pos.shape \in {<<>>, <<1>>}
    /\ call.args.current_pos.data[1] >= 0
    /\ call.args.current_pos.data[1] < Len(call.stack.rows)

\* C3: in a non-prefill forward whose current_pos lies in 0..S-1, the
\* hidden state given to the head has exactly one row, row current_pos of
\* the decoder-stack output of that same call.
C3_ExtractsCurrentPos ==
    ( /\ call.op = "forward" /\ ~call.args.IN_PREFILL
      /\ call.ended \notin {"validate", "stack"}
      /\ CurrentPosInRange ) =>
        /\ call.ended = "return"
        /\ call.head_in.ops = call.stack.ops
        /\ call.head_in.rows = << call.stack.rows[call.args.current_pos.data[1] + 1] >>

C3_Witness ==
    /\ Returned("forward") /\ ~call.args.IN_PREFILL
    /\ call.args.current_pos = CurTensor(<<1>>, <<1>>)
    /\ Len(call.stack.rows) = 3
    /\ call.head_in.rows = <<1>>

\* (a): no unexpected key and no missing key beside the rotary buffers
StackKeysAccepted ==
    /\ \A k \in ckpt.keys :
         ~ContainsLmHead(NewKey(k)) => NewKey(k) \in ModelKeys(config.num_hidden_layers)
    /\ \A m \in ModelKeys(config.num_hidden_layers) :
         IsRotaryBuffer(m) \/ \E k \in ckpt.keys : NewKey(k) = m

\* (b): the head weight is stored under its exact unprefixed name
HeadWeightPresent == LmHeadKey \in ckpt.keys

\* C4: a load returns success exactly when (a) and (b) hold, and returns
\* failure (never raises) otherwise.
C4_LoadSuccessIff ==
    load_ret # "none" =>
        load_ret = (IF StackKeysAccepted /\ HeadWeightPresent THEN "true" ELSE "false")

\* the length of the call's position ids (-1 when they have none)
PosLength ==
    IF call.args.position_ids = None \/ Rank(call.args.position_ids) = 0 THEN -1
    ELSE LastDim(call.args.position_ids)

PosRank == IF call.args.position_ids = None THEN -1 ELSE Rank(call.args.position_ids)

\* the cases in which forward's validation must fail the call
ForwardContractViolated ==
    \/ Rank(call.args.input_ids) # 2
    \/ ~call.args.IN_PREFILL /\ PosRank \notin {1, 2}
    \/ call.args.IN_PREFILL /\ PosLength # LastDim(call.args.input_ids)

\* C5: forward fails before the decoder stack runs when the token ids are
\* not rank-2, or (non-prefill) the position ids are not rank-1 or rank-2,
\* or (prefill) their length differs from the token sequence length; in no
\* other case does the validation fail the call.
C5_ForwardValidation ==
    call.op = "forward" =>
        IF ForwardContractViolated
        THEN call.ended = "validate" /\ ~call.ran_stack
        ELSE call.ended # "validate" /\ call.ran_stack

C5_Witness ==
    /\ call.op = "forward" /\ call.args.IN_PREFILL
    /\ Rank(call.args.input_ids) = 2 /\ PosRank = 1
    /\ PosLength # LastDim(call.args.input_ids)
    /\ call.ended = "validate"

\* C6: prefill_kv_cache fails before the decoder stack runs when the token
\* ids are not rank-2 or the position-id length differs from the token
\* sequence length.
C6_PrefillValidation ==
    ( /\ call.op = "prefill"
      /\ \/ Rank(call.args.input_ids) # 2
         \/ PosLength # LastDim(call.args.input_ids) ) =>
        call.ended = "validate" /\ ~call.ran_stack

\* the decoder layers of the instance, each once, in index order
AllLayersInOrder == [i \in 1..config.num_hidden_layers |-> <<"layers", ToString(i - 1)>>]

\* C7: a completed stack run applied the embedding, every layer once in
\* index order and then the final norm exactly once in normal mode and not
\* at all in prefill mode; prefill_kv_cache runs the stack in prefill mode
\* and returns no value.
C7_StackOrder ==
    (call.op # "none" /\ call.ended \notin {"validate", "stack"}) =>
        /\ call.stack.ops =
             << <<"embed_tokens">> >> \o AllLayersInOrder \o
             (IF call.op = "forward" /\ ~call.args.IN_PREFILL
              THEN << <<"norm">> >> ELSE <<>>)
        /\ call.op = "prefill" => call.result = NoResult

C7_Witness ==
    /\ Returned("prefill")
    /\ config.num_hidden_layers = 2
    /\ call.stack.ops = << <<"embed_tokens">>, <<"layers", "0">>, <<"layers", "1">> >>

\* C8: forward returns the N partial logits, in shard order and unmerged,
\* exactly when enable_coreml and ENABLE_LOGITS2 are set and the head has
\* N > 1 shards; otherwise it returns one logits tensor.
C8_TupleReturn ==
    Returned("forward") =>
        IF enable_coreml /\ flags.ENABLE_LOGITS2 /\ PartitionDegree > 1
        THEN /\ call.result.kind = "tuple"
             /\ call.result.parts =
                  [k \in 1..PartitionDegree |-> Project(Shard(k - 1), call.head_in)]
        ELSE /\ call.result.kind = "tensor"
             /\ Len(call.result.parts) = 1

C8_Witness ==
    /\ Returned("forward") /\ call.result.kind = "tuple"
    /\ PartitionDegree = 8 /\ Len(call.result.parts) = 8

\* element [b, h, s, d] (0-based) of a rank-4 tensor
At4(t, b, h, s, d) == t.data[Ravel(t.shape, <<b, h, s, d>>) + 1]

\* C9: repeat_kv of a [B, Nkv, S, D] tensor has Nkv * n_rep heads and its
\* head h is input head h div n_rep.
C9_RepeatKvReplicates ==
    kv.op = "repeat_kv" =>
        /\ kv.out.shape = <<kv.x.shape[1], kv.x.shape[2] * kv.n_rep,
                            kv.x.shape[3], kv.x.shape[4]>>
        /\ Len(kv.out.data) = Prod(kv.out.shape)
        /\ \A b \in 0..(kv.x.shape[1] - 1), h \in 0..(kv.x.shape[2] * kv.n_rep - 1),
              s \in 0..(kv.x.shape[3] - 1), d \in 0..(kv.x.shape[4] - 1) :
             At4(kv.out, b, h, s, d) = At4(kv.x, b, h \div kv.n_rep, s, d)

C9_Witness ==
    /\ kv.op = "repeat_kv" /\ kv.n_rep = 3 /\ kv.x.shape[2] = 2
    /\ kv.out.shape[2] = 6
    /\ At4(kv.out, 0, 3, 0, 0) = At4(kv.x, 0, 1, 0, 0)

\* the position ids of the call are rank-1, or rank-2 with a leading 1, and
\* every one of them is a tabulated position
PositionIdsTabulated ==
    /\ call.args.position_ids # None
    /\ \/ PosRank = 1
       \/ PosRank = 2 /\ call.args.position_ids.shape[1] = 1
    /\ \A i \in DOMAIN call.args.position_ids.data :
         /\ call.args.position_ids.data[i] >= 0
         /\ call.args.position_ids.data[i] < config.max_position_embeddings

\* C10: the rotary lookup returns, for position ids p[0..S-1], table row
\* p[s] as row s of cos and of sin; with no position ids it returns the
\* first S table rows.
C10_RotaryKeyedByPosition ==
    (call.op # "none" /\ call.att.rot # None) =>
        /\ PositionIdsTabulated =>
             /\ call.att.rot.ok
             /\ call.att.rot.cos = [s \in 1..PosLength |->
                                      cos_cached[call.args.position_ids.data[s] + 1]]
             /\ call.att.rot.sin = [s \in 1..PosLength |->
                                      sin_cached[call.args.position_ids.data[s] + 1]]
        /\ call.args.position_ids = None =>
             /\ call.att.rot.ok
             /\ call.att.rot.cos = SubSeq(cos_cached, 1, call.args.input_ids.shape[2])
             /\ call.att.rot.sin = SubSeq(sin_cached, 1, call.args.input_ids.shape[2])

C10_Witness ==
    /\ Returned("forward")
    /\ call.args.position_ids = Tensor(<<3>>, <<2, 3, 4>>)
    /\ call.att.rot.cos = << <<"cos", 2>>, <<"cos", 3>>, <<"cos", 4>> >>

\* the key ends with one of the seven projection-weight suffixes
EndsWithProj(k) == k[Len(k)] \in Range(ProjWeights)

\* element [o, i] (0-based) of a rank-2 tensor
At2(t, o, i) == t.data[Ravel(t.shape, <<o, i>>) + 1]

\* C11: in the key translation a rank-2 [out, in] tensor is reshaped to
\* rank-4 [out, in, 1, 1] with the same elements exactly when its key ends
\* with one of the seven projection-weight suffixes; every other key that
\* is not the head key is passed on with its tensor unchanged.
C11_ReshapeIffSuffix ==
    (conv_step.op = "translate" /\ ~ContainsLmHead(conv_step.key)) =>
        IF EndsWithProj(conv_step.key)
        THEN Rank(conv_step.v) = 2 =>
               /\ conv_step.outcome = "stored"
               /\ conv_step.out.shape = conv_step.v.shape \o <<1, 1>>
               /\ \A o \in 0..(conv_step.v.shape[1] - 1), i \in 0..(conv_step.v.shape[2] - 1) :
                    At4(conv_step.out, o, i, 0, 0) = At2(conv_step.v, o, i)
        ELSE /\ conv_step.outcome = "stored"
             /\ conv_step.out = conv_step.v

\* C12: the translation removes only a leading "model." from a key: a key
\* that starts with it loses that one occurrence and keeps the rest as it
\* is, later occurrences included; any other key is unchanged.
C12_StripLeadingPrefixOnly ==
    conv_step.op = "translate" =>
        conv_step.new_k = (IF StartsWithModel(conv_step.key)
                           THEN Tail(conv_step.key) ELSE conv_step.key)

\* C13: after loading, no forward or prefill_kv_cache call, failed calls
\* included, changes a model parameter, a head-shard weight or the rotary
\* cos/sin tables; and a call repeated with the same arguments has the same
\* outcome, whatever was called before it.
C13_CallsLeaveStateUnchanged ==
    [][ load_ret # "none" =>
          /\ state_dict' = state_dict
          /\ lm_heads' = lm_heads
          /\ cos_cached' = cos_cached
          /\ sin_cached' = sin_cached
          /\ (call.op # "none" /\ call'.op = call.op /\ call'.args = call.args)
                => call' = call ]_vars

C13_Witness ==
    /\ load_ret = "true"
    /\ Returned("prefill")
    /\ \A k \in DOMAIN state_dict : IsRotaryBuffer(k) \/ state_dict[k].src # <<"init">>
    /\ Flatten([k \in 1..16 |-> Shard(k - 1)]) = ckpt.lm_head
    /\ cos_cached = RotaryTable("cos", config.max_position_embeddings)
    /\ sin_cached = RotaryTable("sin", config.max_position_embeddings)

\* the sequence length the attention blocks of the call see
LiveSeqLen == call.args.input_ids.shape[2]

\* rows 0..S-1 and columns 0..S-1 of the mask supplied to the call
TopLeft(S) ==
    [i \in 1..S |-> [j \in 1..S |-> call.args.causal_mask.m[i][j]]]

\* C14: in forward and in prefill_kv_cache, for a sequence of length S and
\* a supplied mask whose last two dimensions are at least S, the bias added
\* to the attention scores is the top-left S-by-S submatrix of that mask;
\* the row-only pre-slice of prefill_kv_cache followed by the attention
\* block's slice gives the same submatrix.
C14_MaskBiasTopLeft ==
    ( /\ call.op # "none" /\ call.ran_stack
      /\ Rank(call.args.input_ids) = 2
      /\ call.args.causal_mask # None
      /\ call.args.causal_mask.shape[3] >= LiveSeqLen
      /\ call.args.causal_mask.shape[4] >= LiveSeqLen ) =>
        /\ call.ended # "stack" => call.att.bias # None
        /\ call.att.bias # None => call.att.bias.m = TopLeft(LiveSeqLen)

C14_Witness ==
    /\ Returned("prefill")
    /\ call.args.causal_mask = MaskTensor(MaxSeqLen, MaxSeqLen + 1)
    /\ LiveSeqLen = 2
    /\ call.att.bias.m = << << <<0, 0>>, <<0, 1>> >>, << <<1, 0>>, <<1, 1>> >> >>

\* the weight blocks the loader copies for the checkpoint of the last load
LoaderCopies == HeadAssignments(flags, config, ckpt.lm_head).copies

\* C15: in every partition mode and for every vocab_size equal to the
\* checkpoint head's row count, the shards the loader writes and forward
\* reads are exactly the shards the constructor created, the block copied
\* into shard i has as many rows as shard i was constructed with, and the
\* head-loading step never fails on a shape mismatch.
C15_ShardsConsistent ==
    /\ DOMAIN lm_heads = Range(ForwardHeadNames(flags))
    /\ (load_ret # "none" /\ StackKeysAccepted /\ HeadWeightPresent) =>
         /\ Len(ckpt.lm_head) = config.vocab_size
         /\ { LoaderCopies[k].name : k \in DOMAIN LoaderCopies } = DOMAIN lm_heads
         /\ \A k \in DOMAIN LoaderCopies :
              Len(LoaderCopies[k].rows) = Len(lm_heads[LoaderCopies[k].name])
         /\ load_ret # "raise"
====
